---- MODULE Spec2Model ----
(***************************************************************************)
(* GitWhisperer: the response-parsing contract of the AI backend           *)
(* (python-backend/ai_commit_writer.py).  Text is modelled as a sequence   *)
(* of one-character strings, so that strip(), re.sub(), split(), lower()   *)
(* and slicing are computed character by character as Python computes     *)
(* them.  The generation collaborator (client.chat.completions.create) is  *)
(* an input: each call either raises or returns a reply text.              *)
(***************************************************************************)
EXTENDS Integers, Sequences, FiniteSets, TLC

VARIABLES pc, op, diff_text, max_length, count, replies, calls, result,
          reparsed, prompt, requests, frames, client,
          prog, creds, repo, repo0, answers, events, commit_args, outcome,
          exit_code

\* the state of one interactive run of the command-line programs
flowvars ==
  <<prog, creds, repo, repo0, answers, events, commit_args, outcome,
    exit_code>>

\* the state of the API server: the requests being handled, the locals of
\* their handler calls, and the module-level client they all use
apivars == <<requests, frames, client>>

vars ==
  <<pc, op, diff_text, max_length, count, replies, calls, result, reparsed,
    prompt, flowvars, apivars>>

(***************************************************************************)
(* Bounds of the inputs.                                                   *)
(***************************************************************************)
MaxReplyLen == 5
MaxLengthArg == 5
MaxCount == 3
MaxAltLines == 3
MaxBranchLines == 2
PromptSpread == 20
MaxRequests == 2
MaxPRLines == 3

(***************************************************************************)
(* Program constants.                                                      *)
(***************************************************************************)
EllipsisBack == 3
AltLineLimit == 50
SuggestionCount == 3
BranchAltCap == 3
AltPromptLimit == 1000

(***************************************************************************)
(* Character classes.                                                      *)
(***************************************************************************)
Spaces == {" ", "\t", "\n", "\r"}

Quotes == {"\"", "'"}

Digits == {"0", "1", "2", "3", "4", "5", "6", "7", "8", "9"}

LowerLetters ==
  {"a", "b", "c", "d", "e", "f", "g", "h", "i", "j", "k", "l", "m",
   "n", "o", "p", "q", "r", "s", "t", "u", "v", "w", "x", "y", "z"}

UpperLetters ==
  {"A", "B", "C", "D", "E", "F", "G", "H", "I", "J", "K", "L", "M",
   "N", "O", "P", "Q", "R", "S", "T", "U", "V", "W", "X", "Y", "Z"}

UpperSeq ==
  <<"A", "B", "C", "D", "E", "F", "G", "H", "I", "J", "K", "L", "M",
    "N", "O", "P", "Q", "R", "S", "T", "U", "V", "W", "X", "Y", "Z">>

LowerSeq ==
  <<"a", "b", "c", "d", "e", "f", "g", "h", "i", "j", "k", "l", "m",
    "n", "o", "p", "q", "r", "s", "t", "u", "v", "w", "x", "y", "z">>

(***************************************************************************)
(* Python string primitives.                                               *)
(***************************************************************************)
Min(a, b) == IF a <= b THEN a ELSE b

Max(a, b) == IF a >= b THEN a ELSE b

RECURSIVE DropWhileIn(_, _)
DropWhileIn(s, C) ==
  IF s # <<>> /\ Head(s) \in C THEN DropWhileIn(Tail(s), C) ELSE s

RECURSIVE DropLastWhileIn(_, _)
DropLastWhileIn(s, C) ==
  IF s # <<>> /\ s[Len(s)] \in C
  THEN DropLastWhileIn(SubSeq(s, 1, Len(s) - 1), C)
  ELSE s

\* str.strip(): whitespace removed at both ends
Strip(s) == DropLastWhileIn(DropWhileIn(s, Spaces), Spaces)

\* s[:k], k possibly negative
Slice(s, k) ==
  IF k >= 0
  THEN SubSeq(s, 1, Min(k, Len(s)))
  ELSE SubSeq(s, 1, Max(Len(s) + k, 0))

\* s.startswith(p)
StartsWith(s, p) == Len(s) >= Len(p) /\ SubSeq(s, 1, Len(p)) = p

\* s.split(c) for a one-character separator
RECURSIVE Split(_, _)
Split(s, c) ==
  IF \A i \in 1..Len(s) : s[i] # c
  THEN <<s>>
  ELSE LET i == CHOOSE k \in 1..Len(s) :
                  s[k] = c /\ \A j \in 1..(k - 1) : s[j] # c
       IN <<SubSeq(s, 1, i - 1)>> \o Split(SubSeq(s, i + 1, Len(s)), c)

LowerChar(c) ==
  IF c \in UpperLetters
  THEN LowerSeq[CHOOSE i \in 1..26 : UpperSeq[i] = c]
  ELSE c

\* str.lower()
Lower(s) == [i \in 1..Len(s) |-> LowerChar(s[i])]

DropIndex(s, j) == SubSeq(s, 1, j - 1) \o SubSeq(s, j + 1, Len(s))

(***************************************************************************)
(* Literals of the program.                                                *)
(***************************************************************************)
Ellipsis == <<".", ".", ".">>

NoChangesDetected ==
  <<"N", "o", " ", "c", "h", "a", "n", "g", "e", "s", " ",
    "d", "e", "t", "e", "c", "t", "e", "d">>

UpdateProjectFiles ==
  <<"U", "p", "d", "a", "t", "e", " ", "p", "r", "o", "j", "e", "c", "t",
    " ", "f", "i", "l", "e", "s">>

CommitFallbackSuggestions ==
  << <<"A", "d", "d", " ", "n", "e", "w", " ", "f", "e", "a", "t", "u", "r", "e">>,
     <<"F", "i", "x", " ", "b", "u", "g">>,
     <<"U", "p", "d", "a", "t", "e", " ", "d", "o", "c", "u", "m", "e", "n",
       "t", "a", "t", "i", "o", "n">> >>

AlternativesFallback ==
  << <<"U", "p", "d", "a", "t", "e", " ", "f", "i", "l", "e", "s">>,
     <<"A", "d", "d", " ", "c", "h", "a", "n", "g", "e", "s">>,
     <<"M", "o", "d", "i", "f", "y", " ", "c", "o", "d", "e">> >>

CommitNothingToDo ==
  [commit_message |-> NoChangesDetected, confidence |-> "0.0",
   suggestions |-> <<>>]

CommitFallback ==
  [commit_message |-> UpdateProjectFiles, confidence |-> "0.0",
   suggestions |-> CommitFallbackSuggestions]

(***************************************************************************)
(* Outcomes of one call of the generation collaborator.                    *)
(***************************************************************************)
Raised == [ok |-> FALSE, text |-> <<>>]

Reply(t) == [ok |-> TRUE, text |-> t]

(***************************************************************************)
(* generate_alternative_messages                                           *)
(***************************************************************************)
\* a variant whose pattern requires the period: r'^\d+\.\s*'
ReSubOrdinal_PeriodRequired(line) ==
  LET a == DropWhileIn(line, Digits)
  IN IF line # <<>> /\ Head(line) \in Digits /\ a # <<>> /\ Head(a) = "."
     THEN DropWhileIn(Tail(a), Spaces)
     ELSE line

\* re.sub(r'^\d+\.?\s*', '', line)
ReSubOrdinal(line) ==
  IF line = <<>> \/ Head(line) \notin Digits
  THEN line
  ELSE LET a == DropWhileIn(line, Digits)
           b == IF a # <<>> /\ Head(a) = "." THEN Tail(a) ELSE a
       IN DropWhileIn(b, Spaces)

CleanAlternativeLine(line) == Strip(ReSubOrdinal(line))

KeepAlternative(line) == line # <<>> /\ Len(line) <= AltLineLimit

ParseAlternatives(text, n) ==
  LET lines == Split(Strip(text), "\n")
      cleaned == [i \in 1..Len(lines) |-> CleanAlternativeLine(lines[i])]
  IN Slice(SelectSeq(cleaned, KeepAlternative), n)

\* what follows the embedded diff on its line of the prompt
AltPromptAfterDiff ==
  <<".", ".", ".", " ", " ", "#", " ", "T", "r", "u", "n", "c", "a", "t", "e",
    " ", "f", "o", "r", " ", "t", "o", "k", "e", "n", " ", "l", "i", "m", "i",
    "t", "s">>

\* the prompt of generate_alternative_messages, by its interpolated parts:
\* {count}, and the line "{diff_text[:1000]}...  # Truncate for token limits"
AlternativesPrompt(diff, n) ==
  [count |-> n,
   embedded |-> Slice(diff, AltPromptLimit),
   after |-> AltPromptAfterDiff]

generate_alternative_messages(diff, n, out) ==
  IF out.ok THEN ParseAlternatives(out.text, n) ELSE AlternativesFallback

(***************************************************************************)
(* generate_commit_message                                                 *)
(***************************************************************************)
\* re.sub(r'^["\']|["\']$', '', s)
ReSubQuotes(s) ==
  LET n == Len(s)
      lead == n >= 1 /\ s[1] \in Quotes
      j == IF n >= 1 /\ s[n] \in Quotes THEN n
           ELSE IF n >= 2 /\ s[n] = "\n" /\ s[n - 1] \in Quotes THEN n - 1
           ELSE 0
      trail == j > 0 /\ ~(lead /\ j = 1)
      t == IF trail THEN DropIndex(s, j) ELSE s
  IN IF lead THEN Tail(t) ELSE t

CleanCommitMessage(text) == ReSubQuotes(Strip(text))

Truncate(msg, L) ==
  IF Len(msg) > L THEN Slice(msg, L - EllipsisBack) \o Ellipsis ELSE msg

\* a variant without the inner try/except of generate_alternative_messages:
\* a failure of the alternatives call reaches the outer handler
generate_commit_message_NoInnerHandler(diff, L, out1, out2) ==
  IF Strip(diff) = <<>>
  THEN [result |-> CommitNothingToDo, calls |-> 0]
  ELSE IF ~out1.ok
  THEN [result |-> CommitFallback, calls |-> 1]
  ELSE IF ~out2.ok
  THEN [result |-> CommitFallback, calls |-> 2]
  ELSE [result |->
          [commit_message |-> Truncate(CleanCommitMessage(out1.text), L),
           confidence |-> "0.9",
           suggestions |-> ParseAlternatives(out2.text, SuggestionCount)],
        calls |-> 2]

\* out1: the outcome of the message call; out2: of the alternatives call
generate_commit_message(diff, L, out1, out2) ==
  IF Strip(diff) = <<>>
  THEN [result |-> CommitNothingToDo, calls |-> 0]
  ELSE IF ~out1.ok
  THEN [result |-> CommitFallback, calls |-> 1]
  ELSE [result |->
          [commit_message |-> Truncate(CleanCommitMessage(out1.text), L),
           confidence |-> "0.9",
           suggestions |->
             generate_alternative_messages(diff, SuggestionCount, out2)],
        calls |-> 2]

(***************************************************************************)
(* suggest_branch_name                                                     *)
(***************************************************************************)
PrimaryLabel == <<"p", "r", "i", "m", "a", "r", "y", ":">>

AlternativesLabel ==
  <<"a", "l", "t", "e", "r", "n", "a", "t", "i", "v", "e", "s", ":">>

FeatureNewChanges ==
  <<"f", "e", "a", "t", "u", "r", "e", "/", "n", "e", "w", "-",
    "c", "h", "a", "n", "g", "e", "s">>

BranchFallbackAlternatives ==
  << <<"f", "e", "a", "t", "u", "r", "e", "/", "u", "p", "d", "a", "t", "e", "s">>,
     <<"f", "e", "a", "t", "u", "r", "e", "/", "m", "o", "d", "i", "f", "i",
       "c", "a", "t", "i", "o", "n", "s">> >>

BranchFallback ==
  [branch_name |-> FeatureNewChanges,
   alternatives |-> BranchFallbackAlternatives]

BranchDefaultPrimary ==
  <<"f", "e", "a", "t", "u", "r", "e", "/", "n", "e", "w", "-",
    "f", "e", "a", "t", "u", "r", "e">>

BranchDefaultAlternatives ==
  << <<"f", "e", "a", "t", "u", "r", "e", "/", "a", "l", "t", "1">>,
     <<"f", "e", "a", "t", "u", "r", "e", "/", "a", "l", "t", "2">> >>

\* a variant that leaves the label in the value
ReSubPrefix_KeepsPrefix(prefix, line) == line

\* re.sub(r'^<prefix>\s*', '', line), the prefix matched case-sensitively
ReSubPrefix(prefix, line) ==
  IF StartsWith(line, prefix)
  THEN DropWhileIn(SubSeq(line, Len(prefix) + 1, Len(line)), Spaces)
  ELSE line

NonEmpty(s) == s # <<>>

\* [alt.strip() for alt in alt_text.split(',') if alt.strip()]
SplitAlternatives(alt_text) ==
  LET pieces == Split(alt_text, ",")
      trimmed == [i \in 1..Len(pieces) |-> Strip(pieces[i])]
  IN SelectSeq(trimmed, NonEmpty)

\* the for loop over content.split('\n'): a later matching line overwrites
RECURSIVE ScanBranchLines(_, _, _)
ScanBranchLines(lines, primary, alternatives) ==
  IF lines = <<>>
  THEN [primary |-> primary, alternatives |-> alternatives]
  ELSE LET line == Head(lines)
       IN IF StartsWith(Lower(line), PrimaryLabel)
          THEN ScanBranchLines(Tail(lines),
                               Strip(ReSubPrefix(PrimaryLabel, line)),
                               alternatives)
          ELSE IF StartsWith(Lower(line), AlternativesLabel)
          THEN ScanBranchLines(Tail(lines), primary,
                 SplitAlternatives(Strip(ReSubPrefix(AlternativesLabel, line))))
          ELSE ScanBranchLines(Tail(lines), primary, alternatives)

BranchCharsKept == LowerLetters \cup UpperLetters \cup Digits \cup {"/", "-"}

\* a variant that forgets lower()
CleanBranchName_NoLower(name) ==
  [i \in 1..Len(name) |->
     IF name[i] \in BranchCharsKept THEN name[i] ELSE "-"]

\* re.sub(r'[^a-zA-Z0-9/-]', '-', name.lower())
CleanBranchName(name) ==
  LET low == Lower(name)
  IN [i \in 1..Len(low) |->
        IF low[i] \in BranchCharsKept THEN low[i] ELSE "-"]

ParseBranchReply(text) ==
  LET parsed == ScanBranchLines(Split(Strip(text), "\n"),
                                BranchDefaultPrimary,
                                BranchDefaultAlternatives)
      cleaned == [i \in 1..Len(parsed.alternatives) |->
                    CleanBranchName(parsed.alternatives[i])]
  IN [branch_name |-> CleanBranchName(parsed.primary),
      alternatives |-> Slice(cleaned, BranchAltCap)]

suggest_branch_name(diff, out) ==
  IF Strip(diff) = <<>>
  THEN [result |-> BranchFallback, calls |-> 0]
  ELSE IF ~out.ok
  THEN [result |-> BranchFallback, calls |-> 1]
  ELSE [result |-> ParseBranchReply(out.text), calls |-> 1]

(***************************************************************************)
(* summarize_pull_request                                                  *)
(***************************************************************************)
SummaryPrefix == <<"S", "u", "m", "m", "a", "r", "y", ":">>

ImpactPrefix == <<"I", "m", "p", "a", "c", "t", ":">>

TestingPrefix == <<"T", "e", "s", "t", "i", "n", "g", ":">>

Medium == <<"M", "e", "d", "i", "u", "m">>

PRNothingToDo ==
  [summary |-> <<"N", "o", " ", "c", "h", "a", "n", "g", "e", "s", " ", "t",
                 "o", " ", "s", "u", "m", "m", "a", "r", "i", "z", "e">>,
   impact |-> <<"M", "i", "n", "i", "m", "a", "l">>,
   testing_notes |-> <<"N", "o", " ", "s", "p", "e", "c", "i", "f", "i", "c",
                       " ", "t", "e", "s", "t", "i", "n", "g", " ", "r", "e",
                       "q", "u", "i", "r", "e", "d">>]

PRDefaultSummary ==
  <<"C", "h", "a", "n", "g", "e", "s", " ", "m", "a", "d", "e", " ", "t", "o",
    " ", "t", "h", "e", " ", "c", "o", "d", "e", "b", "a", "s", "e">>

PRDefaultTesting ==
  <<"S", "t", "a", "n", "d", "a", "r", "d", " ", "t", "e", "s", "t", "i", "n",
    "g", " ", "p", "r", "o", "c", "e", "d", "u", "r", "e", "s", " ", "a", "p",
    "p", "l", "y">>

PRFallbackSummary ==
  <<"P", "u", "l", "l", " ", "r", "e", "q", "u", "e", "s", "t", " ", "c", "o",
    "n", "t", "a", "i", "n", "s", " ", "c", "o", "d", "e", " ", "c", "h", "a",
    "n", "g", "e", "s">>

PRFallbackTesting ==
  <<"R", "e", "v", "i", "e", "w", " ", "c", "h", "a", "n", "g", "e", "s", " ",
    "b", "e", "f", "o", "r", "e", " ", "m", "e", "r", "g", "i", "n", "g">>

PRFallback ==
  [summary |-> PRFallbackSummary, impact |-> Medium,
   testing_notes |-> PRFallbackTesting]

\* the for loop over content.split('\n'): a later matching line overwrites
RECURSIVE ScanPRLines(_, _, _, _)
ScanPRLines(lines, summary, impact, testing_notes) ==
  IF lines = <<>>
  THEN [summary |-> summary, impact |-> impact,
        testing_notes |-> testing_notes]
  ELSE LET line == Head(lines)
       IN IF StartsWith(line, SummaryPrefix)
          THEN ScanPRLines(Tail(lines),
                           Strip(ReSubPrefix(SummaryPrefix, line)),
                           impact, testing_notes)
          ELSE IF StartsWith(line, ImpactPrefix)
          THEN ScanPRLines(Tail(lines), summary,
                           Strip(ReSubPrefix(ImpactPrefix, line)),
                           testing_notes)
          ELSE IF StartsWith(line, TestingPrefix)
          THEN ScanPRLines(Tail(lines), summary, impact,
                           Strip(ReSubPrefix(TestingPrefix, line)))
          ELSE ScanPRLines(Tail(lines), summary, impact, testing_notes)

\* a variant that treats a reply lacking a field as a failed generation
ParsePRReply_AllOrFallback(text) ==
  LET lines == Split(Strip(text), "\n")
      has(p) == \E i \in 1..Len(lines) : StartsWith(lines[i], p)
  IN IF has(SummaryPrefix) /\ has(ImpactPrefix) /\ has(TestingPrefix)
     THEN ScanPRLines(lines, PRDefaultSummary, Medium, PRDefaultTesting)
     ELSE PRFallback

ParsePRReply(text) ==
  ScanPRLines(Split(Strip(text), "\n"),
              PRDefaultSummary, Medium, PRDefaultTesting)

\* a variant testing the diff without strip()
summarize_pull_request_NoStrip(diff, out) ==
  IF diff = <<>>
  THEN [result |-> PRNothingToDo, calls |-> 0]
  ELSE IF ~out.ok
  THEN [result |-> PRFallback, calls |-> 1]
  ELSE [result |-> ParsePRReply(out.text), calls |-> 1]

summarize_pull_request(diff, out) ==
  IF Strip(diff) = <<>>
  THEN [result |-> PRNothingToDo, calls |-> 0]
  ELSE IF ~out.ok
  THEN [result |-> PRFallback, calls |-> 1]
  ELSE [result |-> ParsePRReply(out.text), calls |-> 1]

\* a summary written in the format the prompt asks the reply to have
RenderReplyFormat(r) ==
  SummaryPrefix \o <<" ">> \o r.summary \o <<"\n">>
    \o ImpactPrefix \o <<" ">> \o r.impact \o <<"\n">>
    \o TestingPrefix \o <<" ">> \o r.testing_notes

TestingNotesPrefix ==
  <<"T", "e", "s", "t", "i", "n", "g", " ", "N", "o", "t", "e", "s", ":">>

\* summary_text, the text summarize_pr of the command-line tool emits
RenderSummaryText(r) ==
  SummaryPrefix \o <<" ">> \o r.summary \o <<"\n">>
    \o ImpactPrefix \o <<" ">> \o r.impact \o <<"\n">>
    \o TestingNotesPrefix \o <<" ">> \o r.testing_notes

RenderFormats == {"reply", "summary_text"}

Render(format, r) ==
  IF format = "reply" THEN RenderReplyFormat(r) ELSE RenderSummaryText(r)

(***************************************************************************)
(* Input sets.                                                             *)
(***************************************************************************)
RECURSIVE StringsUpTo(_, _)
StringsUpTo(A, n) ==
  IF n = 0
  THEN {<<>>}
  ELSE LET shorter == StringsUpTo(A, n - 1)
       IN shorter \cup {Append(s, c) : s \in shorter, c \in A}

Diffs == {<<>>, <<" ">>, <<"\n", " ">>, <<"d">>, <<" ", "d", "\n">>}

CommitReplyAlphabet == {"a", "\"", "'", " "}

CommitReplies == StringsUpTo(CommitReplyAlphabet, MaxReplyLen)

CommitAltOutcomes ==
  {Raised,
   Reply(<<>>),
   Reply(<<"1", ".", " ", "A", "d", "d", "\n", "2", ".", " ", "F", "i", "x">>)}

\* every text of 1..n lines of the set L, joined by newlines
RECURSIVE TextsOfLines(_, _)
TextsOfLines(L, n) ==
  IF n <= 1
  THEN L
  ELSE LET shorter == TextsOfLines(L, n - 1)
       IN shorter \cup {t \o <<"\n">> \o l : t \in shorter, l \in L}

RECURSIVE Repeat(_, _)
Repeat(c, n) == IF n = 0 THEN <<>> ELSE <<c>> \o Repeat(c, n - 1)

AltLines ==
  {<<>>,
   <<"1", ".", " ", "A", "d", "d">>,
   <<"2", ")", " ", "F", "i", "x">>,
   <<"1", "2", " ", "a", "b">>,
   <<"3", ".">>,
   <<" ", "4", ".", " ", "c">>,
   <<"a", "1", ".", "\t", "b", " ">>,
   <<"7", ".", " ">> \o Repeat("x", AltLineLimit),
   <<"8", ".", " ">> \o Repeat("y", AltLineLimit + 1)}

AltReplies == TextsOfLines(AltLines, MaxAltLines)

BranchLabels ==
  {<<>>,
   PrimaryLabel,
   <<"P", "r", "i", "m", "a", "r", "y", ":">>,
   AlternativesLabel,
   <<"A", "l", "t", "e", "r", "n", "a", "t", "i", "v", "e", "s", ":">>}

BranchValues ==
  {<<>>,
   <<" ", "f", "i", "x", "/", "a">>,
   <<" ", "F", "e", "a", "t", "u", "r", "e", "/", "N", "e", "w", " ",
     "A", "u", "t", "h", "!", "!">>,
   <<" ", "a", ",", " ", ",", "B", " ", "c", ",", "d", ",", "e">>}

BranchLines == {l \o v : l \in BranchLabels, v \in BranchValues}

BranchReplies == TextsOfLines(BranchLines, MaxBranchLines) \cup {<<" ">>}

PRPrefixes ==
  {<<>>,
   SummaryPrefix,
   ImpactPrefix,
   TestingPrefix,
   <<"s", "u", "m", "m", "a", "r", "y", ":">>}

PRValues ==
  {<<>>,
   <<" ", "A">>,
   <<" ", "B", " ", " ">>}

PRLines ==
  {p \o v : p \in PRPrefixes, v \in PRValues}
    \cup {SummaryPrefix \o <<" ">> \o PRFallbackSummary,
          TestingPrefix \o PRFallbackTesting}

PRReplies == TextsOfLines(PRLines, MaxPRLines) \cup {<<" ", "\n">>}

Outcomes(texts) == {Raised} \cup {Reply(t) : t \in texts}

(***************************************************************************)
(* The state machine: one request at a time, from idle to done.            *)
(***************************************************************************)
None == <<>>

\* the API server before any request: no request, no handler call, and the
\* client built when the module was loaded
RequestIds == 1..MaxRequests

NoRequest ==
  [state |-> "none", kind |-> "none", diff_text |-> <<>>, max_length |-> 0,
   sent |-> <<>>, response |-> None]

NoLocals == [replies |-> <<>>]

TheClient == [api_key |-> "k"]

\* the values of a run's state before any command-line program has started
NoInput == [kind |-> "none", text |-> <<>>]

NoAnswers == [stage |-> NoInput, choice |-> NoInput, edit |-> NoInput]

NoCredentials == [arg |-> "", env |-> ""]

NoRepository ==
  [is_repo |-> FALSE, staged |-> <<>>, tree |-> <<>>, stage_ok |-> FALSE,
   commit_ok |-> FALSE, commits |-> <<>>]

NotExited == <<>>

Init ==
  /\ pc = "idle"
  /\ op = "none"
  /\ diff_text = <<>>
  /\ max_length = 0
  /\ count = 0
  /\ replies = <<>>
  /\ calls = 0
  /\ result = None
  /\ reparsed = None
  /\ prompt = None
  /\ requests = [r \in RequestIds |-> NoRequest]
  /\ frames = [r \in RequestIds |-> NoLocals]
  /\ client = TheClient
  /\ prog = "none"
  /\ creds = NoCredentials
  /\ repo = NoRepository
  /\ repo0 = NoRepository
  /\ answers = NoAnswers
  /\ events = <<>>
  /\ commit_args = <<>>
  /\ outcome = "none"
  /\ exit_code = NotExited

GenerateCommitMessage ==
  /\ pc = "idle"
  /\ UNCHANGED apivars
  /\ UNCHANGED <<reparsed, flowvars>>
  /\ \E d \in Diffs, L \in 0..MaxLengthArg :
       /\ diff_text' = d
       /\ max_length' = L
       /\ \E o1 \in Outcomes(CommitReplies),
             o2 \in CommitAltOutcomes :
            LET r == generate_commit_message(d, L, o1, o2)
            IN /\ result' = r.result
               /\ calls' = r.calls
               /\ replies' = SubSeq(<<o1, o2>>, 1, r.calls)
               /\ prompt' = IF r.calls > 1
                            THEN AlternativesPrompt(d, SuggestionCount)
                            ELSE None
  /\ op' = "commit"
  /\ pc' = "done"
  /\ count' = 0

\* a call of generate_alternative_messages with a diff and an outcome of the
\* collaborator drawn from the given sets
AlternativesRequest(diffs, outcomes) ==
  /\ pc = "idle"
  /\ UNCHANGED apivars
  /\ UNCHANGED <<reparsed, flowvars>>
  /\ \E d \in diffs, n \in 0..MaxCount, o \in outcomes :
       /\ diff_text' = d
       /\ count' = n
       /\ prompt' = AlternativesPrompt(d, n)
       /\ result' = generate_alternative_messages(d, n, o)
       /\ replies' = <<o>>
  /\ calls' = 1
  /\ op' = "alternatives"
  /\ pc' = "done"
  /\ max_length' = 0

GenerateAlternativeMessages ==
  AlternativesRequest(Diffs, Outcomes(AltReplies))

SuggestBranchName ==
  /\ pc = "idle"
  /\ UNCHANGED apivars
  /\ UNCHANGED <<reparsed, prompt, flowvars>>
  /\ \E d \in Diffs, o \in Outcomes(BranchReplies) :
       LET r == suggest_branch_name(d, o)
       IN /\ diff_text' = d
          /\ result' = r.result
          /\ calls' = r.calls
          /\ replies' = SubSeq(<<o>>, 1, r.calls)
  /\ op' = "branch"
  /\ pc' = "done"
  /\ max_length' = 0
  /\ count' = 0

SummarizePullRequest ==
  /\ pc = "idle"
  /\ UNCHANGED apivars
  /\ UNCHANGED <<reparsed, prompt, flowvars>>
  /\ \E d \in Diffs, o \in Outcomes(PRReplies) :
       LET r == summarize_pull_request(d, o)
       IN /\ diff_text' = d
          /\ result' = r.result
          /\ calls' = r.calls
          /\ replies' = SubSeq(<<o>>, 1, r.calls)
  /\ op' = "pr"
  /\ pc' = "done"
  /\ max_length' = 0
  /\ count' = 0

\* the request is over; nothing of it is kept
Return ==
  /\ pc \in {"done", "reparsed"}
  /\ UNCHANGED apivars
  /\ reparsed' = None
  /\ prompt' = None
  /\ UNCHANGED flowvars
  /\ pc' = "idle"
  /\ op' = "none"
  /\ diff_text' = <<>>
  /\ max_length' = 0
  /\ count' = 0
  /\ replies' = <<>>
  /\ calls' = 0
  /\ result' = None

Next ==
  \/ GenerateCommitMessage
  \/ GenerateAlternativeMessages
  \/ SuggestBranchName
  \/ SummarizePullRequest
  \/ Return

Spec == Init /\ [][Next]_vars

(***************************************************************************)
(* A summary fed back to its parser: the result of summarize_pull_request  *)
(* is written out in one of the two formats and parsed again.              *)
(***************************************************************************)
ParseRendered ==
  /\ pc = "done"
  /\ UNCHANGED apivars
  /\ op = "pr"
  /\ \E f \in RenderFormats :
       reparsed' = [format |-> f, result |-> ParsePRReply(Render(f, result))]
  /\ pc' = "reparsed"
  /\ UNCHANGED <<op, diff_text, max_length, count, replies, calls, result>>
  /\ UNCHANGED <<prompt, flowvars>>

(***************************************************************************)
(* generate_alternative_messages on diffs about as long as the prompt's    *)
(* limit, to see what the prompt embeds.                                   *)
(***************************************************************************)
\* a diff of n characters, no two neighbours alike
DiffOfLength(n) ==
  [i \in 1..n |-> IF i % 3 = 0 THEN "+" ELSE IF i % 3 = 1 THEN "d" ELSE "-"]

PromptDiffs ==
  {DiffOfLength(n) :
     n \in {0, 1} \cup
           ((AltPromptLimit - PromptSpread)..(AltPromptLimit + PromptSpread))}

PromptOutcomes == {Raised, Reply(<<"1", ".", " ", "x">>)}

GenerateAlternativesForLongDiff ==
  AlternativesRequest(PromptDiffs, PromptOutcomes)

PromptNext ==
  \/ GenerateAlternativesForLongDiff
  \/ Return

SpecPrompt == Init /\ [][PromptNext]_vars

RoundTripNext ==
  \/ SummarizePullRequest
  \/ ParseRendered
  \/ Return

SpecRoundTrip == Init /\ [][RoundTripNext]_vars

(***************************************************************************)
(* The command-line programs: main of ai_git_cli.py with its three         *)
(* commands, and run_cli of the backend.  One run at a time; a run stops   *)
(* at every prompt and goes on with the line the user types.               *)
(***************************************************************************)
DefaultMaxLength == 50

ExitSuccess == 0

ExitFailure == 1

CliPrograms == {"interactive_commit_flow", "suggest_branch_names", "summarize_pr"}

CommitPrograms == {"interactive_commit_flow", "run_cli"}

\* the function main calls for a command
ProgramOf(command) ==
  CASE command = "commit" -> "interactive_commit_flow"
    [] command = "branch" -> "suggest_branch_names"
    [] command = "pr" -> "summarize_pr"

\* a variant that reads the key from the environment only
HasCredential_EnvironmentOnly(arg, env) == env # ""

\* args.api_key, when given, is put in the environment; check_api_key then
\* finds the key iff the environment holds a non-empty value
HasCredential(arg, env) ==
  LET environ == IF arg # "" THEN arg ELSE env
  IN environ # ""

\* what main returns after the command ended with outcome o: 1 when an
\* Exception escaped the command, 0 otherwise (KeyboardInterrupt included)
MainExitCode(o) ==
  IF o \in {"no_credential", "raised"}
  THEN <<ExitFailure>>
  ELSE <<ExitSuccess>>

\* run_cli is not called from main and returns nothing
ExitCodeOf(p, o) == IF p \in CliPrograms THEN MainExitCode(o) ELSE NotExited

(* ---- the repository, as git answers about it -------------------------- *)
\* a variant of the check that always passes
RepoCheckPassed_Always(r) == TRUE

\* check_git_repository / GitHandler.is_git_repository
RepoCheckPassed(r) == r.is_repo

\* stdout of `git diff --cached`: stripped by run_git_command of the
\* command-line tool, raw in GitHandler.get_staged_diff
StagedDiffRead(p, r) == IF p = "run_cli" THEN r.staged ELSE Strip(r.staged)

\* GitHandler.has_staged_changes
has_staged_changes(r) == Strip(r.staged) # <<>>

\* stdout of `git diff HEAD`, stripped by run_git_command
HeadDiffRead(r) == Strip(r.staged \o r.tree)

\* `git add .`: on success the changes of the working tree join the index
GitStage(r) ==
  IF r.stage_ok
  THEN [r EXCEPT !.staged = @ \o r.tree, !.tree = <<>>]
  ELSE r

\* `git commit -m arg` creates a commit iff something is staged, the message
\* is not blank and nothing else makes git refuse it
GitCommitSucceeds(r, arg) ==
  /\ r.commit_ok
  /\ r.staged # <<>>
  /\ Strip(arg) # <<>>

GitCommit(r, arg) ==
  IF GitCommitSucceeds(r, arg)
  THEN [r EXCEPT !.commits = Append(@, arg), !.staged = <<>>]
  ELSE r

DiffEvent(d) == IF d = <<>> THEN "diff_empty" ELSE "diff_nonempty"

(* ---- what the programs do with the user's lines ----------------------- *)
\* message.replace('"', '\\"')
RECURSIVE EscapeQuotes(_)
EscapeQuotes(message) ==
  IF message = <<>>
  THEN <<>>
  ELSE IF Head(message) = "\""
  THEN <<"\\", "\"">> \o EscapeQuotes(Tail(message))
  ELSE <<Head(message)>> \o EscapeQuotes(Tail(message))

\* the argument after -m: commit_changes of the command-line tool escapes
\* the double quotes, GitHandler.commit_changes passes the message as it is
CommitArgument(p, message) ==
  IF p = "run_cli" THEN message ELSE EscapeQuotes(message)

\* a variant that stages unless the answer is 'n'
StageAccepted_UnlessNo(p, text) == Strip(Lower(text)) # <<"n">>

\* stage == 'y', after lower() and, in the command-line tool, strip()
StageAccepted(p, text) ==
  IF p = "run_cli"
  THEN Lower(text) = <<"y">>
  ELSE Strip(Lower(text)) = <<"y">>

\* a variant in which anything but 'n', 'e' and 'q' means yes
ClassifyChoice_YesByDefault(p, text) ==
  LET choice == Strip(Lower(text))
  IN CASE choice = <<"e">> -> "edit"
       [] choice = <<"q">> -> "quit"
       [] choice = <<"n">> -> "cancel"
       [] OTHER -> "accept"

\* the if / elif chain on the answer to "Use this message?"
ClassifyChoice(p, text) ==
  IF p = "run_cli"
  THEN LET use_message == Lower(text)
       IN CASE use_message = <<"y">> -> "accept"
            [] use_message = <<"e", "d", "i", "t">> -> "edit"
            [] OTHER -> "cancel"
  ELSE LET choice == Strip(Lower(text))
       IN CASE choice = <<"y">> -> "accept"
            [] choice = <<"e">> -> "edit"
            [] choice = <<"q">> -> "quit"
            [] OTHER -> "cancel"

\* custom_message: stripped in the command-line tool, raw in run_cli
EditedMessage(p, text) == IF p = "run_cli" THEN text ELSE Strip(text)

\* `if custom_message:` of the command-line tool; run_cli has no such test
EditAccepted(p, message) == IF p = "run_cli" THEN TRUE ELSE message # <<>>

\* a variant in which a failed generation leaves generate_commit_message
CallGenerate_Propagates(diff, out1, out2) ==
  LET r == generate_commit_message(diff, DefaultMaxLength, out1, out2)
  IN [raised |-> ~out1.ok, result |-> r.result, calls |-> r.calls]

\* result = generate_commit_message(staged_diff): every Exception is caught
\* inside, so the call returns a result whatever the collaborator does
CallGenerate(diff, out1, out2) ==
  LET r == generate_commit_message(diff, DefaultMaxLength, out1, out2)
  IN [raised |-> FALSE, result |-> r.result, calls |-> r.calls]

(* ---- the steps, as functions of the run's state ----------------------- *)
\* the part of the state a step of a run may change
Run ==
  [pc |-> pc, repo |-> repo, events |-> events, diff_text |-> diff_text,
   commit_args |-> commit_args, outcome |-> outcome]

At(st, where) == [st EXCEPT !.pc = where]

Logged(st, es) == [st EXCEPT !.events = @ \o es]

\* the program is over, with outcome o
Ended(st, o) == [st EXCEPT !.pc = "end", !.outcome = o]

\* where a program goes once the repository check has passed
AfterCheck(p) ==
  CASE p \in CommitPrograms -> "read"
    [] p = "suggest_branch_names" -> "branch_flow"
    [] p = "summarize_pr" -> "pr_flow"

\* if not check_git_repository(): print the error and return
CheckRepoStep(p, st) ==
  LET said == Logged(st, <<IF st.repo.is_repo
                           THEN "check_ok" ELSE "check_fail">>)
  IN IF RepoCheckPassed(st.repo)
     THEN At(said, AfterCheck(p))
     ELSE Ended(Logged(said, <<"error_reported">>), "not_repo")

\* a variant that goes on to the generation whatever was read
ReadDiffStep_NoEmptyTest(p, st) ==
  LET d == StagedDiffRead(p, st.repo)
  IN At(Logged([st EXCEPT !.diff_text = d], <<DiffEvent(d)>>), "generate")

\* staged_diff = get_staged_diff(); if not staged_diff: "No changes to
\* commit", return; otherwise go on to the generation
ReadDiffStep(p, st) ==
  LET d == StagedDiffRead(p, st.repo)
      read == Logged([st EXCEPT !.diff_text = d], <<DiffEvent(d)>>)
  IN IF d = <<>> THEN Ended(read, "nothing") ELSE At(read, "generate")

\* the first look at the index: get_staged_diff() in the command-line tool,
\* has_staged_changes() in run_cli; nothing staged leads to the prompt
ReadStagedStep(p, st) ==
  IF p = "run_cli"
  THEN IF has_staged_changes(st.repo)
       THEN ReadDiffStep(p, Logged(st, <<"names_nonempty">>))
       ELSE At(Logged(st, <<"names_empty", "ask_stage">>), "ask_stage")
  ELSE LET d == StagedDiffRead(p, st.repo)
           read == Logged([st EXCEPT !.diff_text = d], <<DiffEvent(d)>>)
       IN IF d = <<>>
          THEN At(Logged(read, <<"ask_stage">>), "ask_stage")
          ELSE At(read, "generate")

\* the answer to "stage all changes?": on 'y' git add runs and the staged
\* diff is read (again); any other answer returns in the command-line tool
\* and falls through to reading the staged diff in run_cli
AnswerStageStep(p, st, text) ==
  IF StageAccepted(p, text)
  THEN LET staged == [st EXCEPT !.repo = GitStage(@)]
       IN IF st.repo.stage_ok
          THEN ReadDiffStep(p, Logged(staged, <<"stage_ok">>))
          ELSE Ended(Logged(staged, <<"stage_fail", "error_reported">>),
                     "stage_failed")
  ELSE IF p = "run_cli"
       THEN ReadDiffStep(p, st)
       ELSE Ended(st, "declined")

\* input() raised instead of returning a line: KeyboardInterrupt always
\* leaves the program; EOFError is caught by `except Exception` when the
\* prompt is inside the try block of the command-line tool
InputRaisedStep(p, st, in, in_try) ==
  IF in.kind = "interrupt"
  THEN Ended(st, "interrupt")
  ELSE IF in_try /\ p # "run_cli"
       THEN Ended(Logged(st, <<"error_reported">>), "error")
       ELSE Ended(st, "raised")

\* the generation and the display of its result, up to the prompt
GenerateStep(p, st, g) ==
  LET called == IF g.calls > 0 THEN Logged(st, <<"generate">>) ELSE st
  IN IF g.raised
     THEN IF p = "run_cli"
          THEN Ended(called, "raised")
          ELSE Ended(Logged(called, <<"error_reported">>), "error")
     ELSE At(Logged(called, <<"present", "ask_choice">>), "ask_choice")

\* commit_changes(message)
CommitStep(p, st, message) ==
  LET arg == CommitArgument(p, message)
      done == [st EXCEPT !.repo = GitCommit(@, arg),
                         !.commit_args = Append(@, arg)]
  IN IF GitCommitSucceeds(st.repo, arg)
     THEN Ended(Logged(done, <<"commit_ok">>), "committed")
     ELSE Ended(Logged(done, <<"commit_fail", "error_reported">>),
                "commit_failed")

\* the answer to "Use this message?"
DecideStep(p, st, text, generated) ==
  LET read == Logged(st, <<"decide">>)
      choice == ClassifyChoice(p, text)
  IN CASE choice = "accept" -> CommitStep(p, read, generated)
       [] choice = "edit" -> At(Logged(read, <<"ask_edit">>), "ask_edit")
       [] choice = "quit" -> Ended(read, "quit")
       [] OTHER -> Ended(read, "cancelled")

\* the replacement message typed after 'edit'
EditStep(p, st, text) ==
  LET custom_message == EditedMessage(p, text)
  IN IF EditAccepted(p, custom_message)
     THEN CommitStep(p, st, custom_message)
     ELSE Ended(Logged(st, <<"error_reported">>), "empty_message")

\* the try block of suggest_branch_names and summarize_pr after the
\* generation: the result is shown, then copied to the clipboard; a missing
\* pyperclip gives a tip, any other failure of the copy is reported
ShowAndCopyStep(st, calls_made, clip) ==
  LET called == IF calls_made > 0 THEN Logged(st, <<"generate">>) ELSE st
      shown == Logged(called, <<"present">>)
  IN CASE clip = "copied" ->
            Ended(Logged(shown, <<"clipboard_copy">>), "completed")
       [] clip = "missing" ->
            Ended(Logged(shown, <<"tip">>), "completed")
       [] OTHER ->
            Ended(Logged(shown, <<"error_reported">>), "error")

\* run_git_command(['git', 'diff', 'HEAD']) and the two returns after it
HeadDiffStep(st, diff_ok) ==
  IF ~diff_ok
  THEN Ended(Logged(st, <<"diff_head_fail", "error_reported">>),
             "diff_error")
  ELSE LET d == HeadDiffRead(st.repo)
           read == Logged([st EXCEPT !.diff_text = d],
                          <<IF d = <<>> THEN "diff_head_empty"
                            ELSE "diff_head_nonempty">>)
       IN IF d = <<>> THEN Ended(read, "nothing") ELSE At(read, "analyse")

\* suggest_branch_names after the repository check
SuggestBranchNamesStep(st, diff_ok, calls_made, clip) ==
  LET read == HeadDiffStep(st, diff_ok)
  IN IF read.pc = "end"
     THEN read
     ELSE ShowAndCopyStep(Logged(read, <<"branch_read">>), calls_made, clip)

\* summarize_pr after the repository check
SummarizePrStep(st, branch_known, diff_ok, calls_made, clip) ==
  IF ~branch_known
  THEN Ended(Logged(st, <<"branch_read", "error_reported">>), "no_branch")
  ELSE LET read == HeadDiffStep(Logged(st, <<"branch_read">>), diff_ok)
       IN IF read.pc = "end"
          THEN read
          ELSE ShowAndCopyStep(read, calls_made, clip)

(* ---- inputs of a run -------------------------------------------------- *)
Text(t) == [kind |-> "text", text |-> t]

EndOfInput == [kind |-> "eof", text |-> <<>>]

Interrupt == [kind |-> "interrupt", text |-> <<>>]

StageInputs ==
  {Text(t) : t \in {<<"y">>, <<"Y", " ">>, <<"n">>, <<>>}}
    \cup {EndOfInput, Interrupt}

ChoiceInputs ==
  {Text(t) : t \in {<<"y">>, <<"Y">>, <<" ", "y">>, <<"e">>,
                    <<"e", "d", "i", "t">>, <<"q">>, <<"n">>, <<>>,
                    <<"x">>}}
    \cup {EndOfInput, Interrupt}

EditInputs ==
  {Text(t) : t \in {<<>>, <<" ">>, <<"m">>, <<" ", "m", "\"">>}}
    \cup {EndOfInput}

\* what the collaborator does at the two calls of generate_commit_message
FlowFirstOutcomes ==
  {Raised, Reply(<<"a">>), Reply(<<"a", "\"", "b">>)}

FlowSecondOutcomes == {Raised, Reply(<<"1", ".", " ", "x">>)}

FlowBranchOutcomes ==
  {Raised, Reply(PrimaryLabel \o <<" ", "a">>)}

FlowPROutcomes ==
  {Raised, Reply(SummaryPrefix \o <<" ", "A">>)}

ClipboardOutcomes == {"copied", "missing", "failed"}

Commands == {"commit", "branch", "pr"}

ApiKeys == {"", "k"}

\* the repository a run may find: no repository at all, or one with or
\* without staged changes and changes in the working tree, in which git add
\* and git commit may be refused
Repositories ==
  {NoRepository} \cup
  {[is_repo |-> TRUE, staged |-> s, tree |-> t, stage_ok |-> a,
    commit_ok |-> c, commits |-> <<>>] :
     s \in {<<>>, <<"s">>}, t \in {<<>>, <<"t">>},
     a \in BOOLEAN, c \in BOOLEAN}

(* ---- the state machine of a run --------------------------------------- *)
FlowInit ==
  /\ pc = "idle"
  /\ op = "none"
  /\ diff_text = <<>>
  /\ max_length = 0
  /\ count = 0
  /\ replies = <<>>
  /\ calls = 0
  /\ result = None
  /\ reparsed = None
  /\ prompt = None
  /\ requests = [r \in RequestIds |-> NoRequest]
  /\ frames = [r \in RequestIds |-> NoLocals]
  /\ client = TheClient
  /\ prog = "none"
  /\ creds = NoCredentials
  /\ repo \in Repositories
  /\ repo0 = repo
  /\ answers = NoAnswers
  /\ events = <<>>
  /\ commit_args = <<>>
  /\ outcome = "none"
  /\ exit_code = NotExited

\* the step leaves the run in state st
Apply(st) ==
  /\ pc' = st.pc
  /\ repo' = st.repo
  /\ events' = st.events
  /\ diff_text' = st.diff_text
  /\ commit_args' = st.commit_args
  /\ outcome' = st.outcome
  /\ exit_code' = IF st.pc = "end"
                  THEN ExitCodeOf(prog, st.outcome)
                  ELSE exit_code

\* python ai_git_cli.py <command> [--api-key <arg>]
Main ==
  /\ pc = "idle"
  /\ UNCHANGED apivars
  /\ prog = "none"
  /\ \E command \in Commands, arg \in ApiKeys, env \in ApiKeys :
       /\ creds' = [arg |-> arg, env |-> env]
       /\ prog' = ProgramOf(command)
       /\ IF HasCredential(arg, env)
          THEN /\ pc' = "check"
               /\ UNCHANGED <<events, outcome, exit_code>>
          ELSE /\ pc' = "end"
               /\ events' = <<"error_reported">>
               /\ outcome' = "no_credential"
               /\ exit_code' = MainExitCode("no_credential")
  /\ UNCHANGED <<op, diff_text, max_length, count, replies, calls, result,
                 reparsed, prompt, repo, repo0, answers, commit_args>>

\* python ai_commit_writer.py cli
RunCli ==
  /\ pc = "idle"
  /\ UNCHANGED apivars
  /\ prog = "none"
  /\ prog' = "run_cli"
  /\ pc' = "check"
  /\ UNCHANGED <<op, diff_text, max_length, count, replies, calls, result,
                 reparsed, prompt, creds, repo, repo0, answers, events, commit_args,
                 outcome, exit_code>>

CheckRepo ==
  /\ pc = "check"
  /\ UNCHANGED apivars
  /\ Apply(CheckRepoStep(prog, Run))
  /\ UNCHANGED <<op, max_length, count, replies, calls, result, reparsed, prompt,
                 prog, creds, repo0, answers>>

ReadStaged ==
  /\ pc = "read"
  /\ UNCHANGED apivars
  /\ Apply(ReadStagedStep(prog, Run))
  /\ UNCHANGED <<op, max_length, count, replies, calls, result, reparsed, prompt,
                 prog, creds, repo0, answers>>

AnswerStage ==
  /\ pc = "ask_stage"
  /\ UNCHANGED apivars
  /\ \E in \in StageInputs :
       /\ answers' = [answers EXCEPT !.stage = in]
       /\ Apply(IF in.kind = "text"
                THEN AnswerStageStep(prog, Run, in.text)
                ELSE InputRaisedStep(prog, Run, in, FALSE))
  /\ UNCHANGED <<op, max_length, count, replies, calls, result, reparsed, prompt,
                 prog, creds, repo0>>

Generate ==
  /\ pc = "generate"
  /\ UNCHANGED apivars
  /\ \E out1 \in FlowFirstOutcomes, out2 \in FlowSecondOutcomes :
       LET g == CallGenerate(diff_text, out1, out2)
       IN /\ result' = IF g.raised THEN result ELSE g.result
          /\ calls' = g.calls
          /\ prompt' = IF g.calls > 1
                       THEN AlternativesPrompt(diff_text, SuggestionCount)
                       ELSE prompt
          /\ replies' = SubSeq(<<out1, out2>>, 1, g.calls)
          /\ Apply(GenerateStep(prog, Run, g))
  /\ UNCHANGED <<op, max_length, count, reparsed, prog, creds, repo0,
                 answers>>

Decide ==
  /\ pc = "ask_choice"
  /\ UNCHANGED apivars
  /\ \E in \in ChoiceInputs :
       /\ answers' = [answers EXCEPT !.choice = in]
       /\ Apply(IF in.kind = "text"
                THEN DecideStep(prog, Run, in.text, result.commit_message)
                ELSE InputRaisedStep(prog, Run, in, TRUE))
  /\ UNCHANGED <<op, max_length, count, replies, calls, result, reparsed, prompt,
                 prog, creds, repo0>>

EditMessage ==
  /\ pc = "ask_edit"
  /\ UNCHANGED apivars
  /\ \E in \in EditInputs :
       /\ answers' = [answers EXCEPT !.edit = in]
       /\ Apply(IF in.kind = "text"
                THEN EditStep(prog, Run, in.text)
                ELSE InputRaisedStep(prog, Run, in, TRUE))
  /\ UNCHANGED <<op, max_length, count, replies, calls, result, reparsed, prompt,
                 prog, creds, repo0>>

suggest_branch_names ==
  /\ pc = "branch_flow"
  /\ UNCHANGED apivars
  /\ \E diff_ok \in BOOLEAN, out \in FlowBranchOutcomes,
        clip \in ClipboardOutcomes :
       LET r == suggest_branch_name(HeadDiffRead(repo), out)
           st == SuggestBranchNamesStep(Run, diff_ok, r.calls, clip)
           generated == "present" \in {st.events[i] : i \in 1..Len(st.events)}
       IN /\ result' = IF generated THEN r.result ELSE result
          /\ calls' = IF generated THEN r.calls ELSE calls
          /\ replies' = IF generated
                        THEN SubSeq(<<out>>, 1, r.calls)
                        ELSE replies
          /\ Apply(st)
  /\ UNCHANGED <<op, max_length, count, reparsed, prompt, prog, creds, repo0,
                 answers>>

summarize_pr ==
  /\ pc = "pr_flow"
  /\ UNCHANGED apivars
  /\ \E branch_known \in BOOLEAN, diff_ok \in BOOLEAN,
        out \in FlowPROutcomes, clip \in ClipboardOutcomes :
       LET r == summarize_pull_request(HeadDiffRead(repo), out)
           st == SummarizePrStep(Run, branch_known, diff_ok, r.calls, clip)
           generated == "present" \in {st.events[i] : i \in 1..Len(st.events)}
       IN /\ result' = IF generated THEN r.result ELSE result
          /\ calls' = IF generated THEN r.calls ELSE calls
          /\ replies' = IF generated
                        THEN SubSeq(<<out>>, 1, r.calls)
                        ELSE replies
          /\ Apply(st)
  /\ UNCHANGED <<op, max_length, count, reparsed, prompt, prog, creds, repo0,
                 answers>>

FlowNext ==
  \/ Main
  \/ RunCli
  \/ CheckRepo
  \/ ReadStaged
  \/ AnswerStage
  \/ Generate
  \/ Decide
  \/ EditMessage
  \/ suggest_branch_names
  \/ summarize_pr

SpecFlow == FlowInit /\ [][FlowNext]_vars

(***************************************************************************)
(* The API server: /generate-commit, /suggest-branch and /summarize-pr     *)
(* handled concurrently.  A handler call keeps what it reads in its own    *)
(* locals; calls of different requests may interleave at every call of the *)
(* collaborator.                                                           *)
(***************************************************************************)
\* a variant in which the locals are names of the module
Frame_ModuleLevel(r) == 1

\* where the handler call of request r keeps its locals: in its own frame
Frame(r) == r

\* the k-th reply, for the operators that take every reply at once
ReplyAt(rs, k) == IF k <= Len(rs) THEN rs[k] ELSE Raised

\* the function the endpoint of a kind calls, on the replies received
Handled(kind, diff, L, rs) ==
  CASE kind = "commit" ->
         generate_commit_message(diff, L, ReplyAt(rs, 1), ReplyAt(rs, 2))
    [] kind = "branch" -> suggest_branch_name(diff, ReplyAt(rs, 1))
    [] kind = "pr" -> summarize_pull_request(diff, ReplyAt(rs, 1))

\* /generate-commit, /suggest-branch, /summarize-pr
EndpointKinds == {"commit", "branch", "pr"}

ApiDiffs == {<<>>, <<"d">>}

ApiMaxLengths(kind) == IF kind = "commit" THEN {0, MaxLengthArg} ELSE {0}

\* what the collaborator may do at the k-th call of a request of a kind
ApiOutcomes(kind, k) ==
  CASE kind = "commit" /\ k = 1 -> {Raised, Reply(<<"a">>)}
    [] kind = "commit" /\ k > 1 -> CommitAltOutcomes
    [] kind = "branch" -> FlowBranchOutcomes
    [] kind = "pr" -> FlowPROutcomes

\* a request arrives and its handler is called
ApiReceive(r) ==
  /\ requests[r].state = "none"
  /\ \E kind \in EndpointKinds, d \in ApiDiffs :
       \E L \in ApiMaxLengths(kind) :
         requests' = [requests EXCEPT
                        ![r] = [state |-> "running", kind |-> kind,
                                diff_text |-> d, max_length |-> L,
                                sent |-> <<>>, response |-> None]]
  /\ frames' = [frames EXCEPT ![Frame(r)] = NoLocals]
  /\ UNCHANGED <<pc, op, diff_text, max_length, count, replies, calls,
                 result, reparsed, prompt, flowvars, client>>

\* the handler call of request r calls the collaborator and keeps the reply
ApiCall(r) ==
  LET rq == requests[r]
      mine == frames[Frame(r)].replies
  IN /\ rq.state = "running"
     /\ client = TheClient
     /\ Handled(rq.kind, rq.diff_text, rq.max_length, mine).calls > Len(mine)
     /\ \E out \in ApiOutcomes(rq.kind, Len(mine) + 1) :
          /\ frames' = [frames EXCEPT ![Frame(r)].replies = Append(mine, out)]
          /\ requests' = [requests EXCEPT ![r].sent = Append(@, out)]
     /\ UNCHANGED <<pc, op, diff_text, max_length, count, replies, calls,
                    result, reparsed, prompt, flowvars, client>>

\* the handler call of request r returns and the response is sent
ApiRespond(r) ==
  LET rq == requests[r]
      mine == frames[Frame(r)].replies
      h == Handled(rq.kind, rq.diff_text, rq.max_length, mine)
  IN /\ rq.state = "running"
     /\ h.calls <= Len(mine)
     /\ requests' = [requests EXCEPT ![r].state = "responded",
                                     ![r].response = h.result]
     /\ UNCHANGED <<pc, op, diff_text, max_length, count, replies, calls,
                    result, reparsed, prompt, flowvars, frames, client>>

ApiNext ==
  \E r \in RequestIds :
    \/ ApiReceive(r)
    \/ ApiCall(r)
    \/ ApiRespond(r)

SpecApi == Init /\ [][ApiNext]_vars

(***************************************************************************)
(* Properties.                                                             *)
(***************************************************************************)
Done(kind) == pc = "done" /\ op = kind

Blank(s) == \A i \in 1..Len(s) : s[i] \in Spaces

\* the reply text of the k-th collaborator call of the request
ReplyText(k) == replies[k].text

\* the request got a reply from its first collaborator call
Replied == calls >= 1 /\ replies[1].ok

\* C1: on the successful-generation path of generate_commit_message the
\* returned commit_message is never longer than max_length, for every
\* max_length >= 0, and a cleaned reply longer than max_length is returned as
\* its first max_length - 3 characters followed by "...".
C1_MessageWithinMaxLength ==
  (Done("commit") /\ Replied) =>
    LET cleaned == CleanCommitMessage(ReplyText(1))
    IN /\ Len(result.commit_message) <= max_length
       /\ Len(cleaned) > max_length =>
            result.commit_message =
              SubSeq(cleaned, 1, max_length - 3) \o <<".", ".", ".">>

\* what C2 expects of a reply: the pair of matching outermost quotes removed,
\* anything else only trimmed
WrappedQuotesRemoved(text) ==
  LET s == Strip(text)
      n == Len(s)
  IN IF n >= 2 /\ s[1] \in Quotes /\ s[n] = s[1]
     THEN Strip(SubSeq(s, 2, n - 1))
     ELSE s

\* C2: quote stripping removes a quote only when the reply is wrapped in a
\* matching pair of outermost quotes, and then exactly that pair; any other
\* reply is returned unchanged apart from trimming, and the result has no
\* leading or trailing whitespace (stated where no truncation applies).
C2_OnlyMatchingPairStripped ==
  (Done("commit") /\ Replied /\ Len(ReplyText(1)) <= max_length) =>
    result.commit_message = WrappedQuotesRemoved(ReplyText(1))

\* C3: with a non-empty diff, a reply that is empty, whitespace-only or empty
\* after quote stripping selects the whole commit fallback object; an empty
\* commit_message is never returned with confidence 0.9.
C3_EmptyReplySelectsFallback ==
  Done("commit") =>
    /\ (Replied /\ CleanCommitMessage(ReplyText(1)) = <<>>) =>
         result = CommitFallback
    /\ ~(result.commit_message = <<>> /\ result.confidence = "0.9")

FallbackOf(kind) ==
  CASE kind = "commit" -> CommitFallback
    [] kind = "branch" -> BranchFallback
    [] kind = "pr" -> PRFallback

RequestKinds == {"commit", "branch", "pr"}

NothingToDoOf(kind) ==
  CASE kind = "commit" ->
         [commit_message |-> NoChangesDetected, confidence |-> "0.0",
          suggestions |-> <<>>]
    [] kind = "branch" -> BranchFallback
    [] kind = "pr" -> PRNothingToDo

\* C5: for every request kind, an empty or whitespace-only diff returns the
\* fixed "nothing to do" result and the generation collaborator is invoked
\* zero times.
C5_BlankDiffNoGeneration ==
  (pc = "done" /\ op \in RequestKinds /\ Blank(diff_text)) =>
    /\ calls = 0
    /\ replies = <<>>
    /\ result = NothingToDoOf(op)

C5_Witness ==
  /\ Done("pr")
  /\ diff_text = <<"\n", " ">>
  /\ calls = 0
  /\ result = PRNothingToDo

\* the number of digits a line begins with
LeadingDigits(line) ==
  CHOOSE k \in 0..Len(line) :
    /\ \A i \in 1..k : line[i] \in Digits
    /\ k = Len(line) \/ line[k + 1] \notin Digits

\* C6 as claimed, for one line: only a digits+period marker is removed
PeriodMarkerRemoved(line) ==
  LET d == LeadingDigits(line)
  IN IF d >= 1 /\ d < Len(line) /\ line[d + 1] = "."
     THEN SubSeq(line, d + 2, Len(line))
     ELSE line

\* C6 as amended, for one line: the leading digits are removed, and the
\* period after them when there is one
DigitsMarkerRemoved(line) ==
  LET d == LeadingDigits(line)
  IN IF d >= 1 /\ d < Len(line) /\ line[d + 1] = "."
     THEN SubSeq(line, d + 2, Len(line))
     ELSE SubSeq(line, d + 1, Len(line))

\* the first n, in source order, of the trimmed lines that are non-empty and
\* at most 50 characters long
FirstKeptLines(text, n, Unmarked(_)) ==
  LET lines == Split(Strip(text), "\n")
      trimmed == [i \in 1..Len(lines) |-> Strip(Unmarked(lines[i]))]
      kept == SelectSeq(trimmed, LAMBDA l : Len(l) >= 1 /\ Len(l) <= 50)
  IN SubSeq(kept, 1, Min(n, Len(kept)))

FirstColon(line) ==
  CHOOSE k \in 1..Len(line) :
    line[k] = ":" /\ \A j \in 1..(k - 1) : line[j] # ":"

AfterFirstColon(line) ==
  Strip(SubSeq(line, FirstColon(line) + 1, Len(line)))

BranchCharset == LowerLetters \cup Digits \cup {"/", "-"}

\* s lowercased, each character outside [a-z0-9/-] replaced by one hyphen
Hyphenated(s) ==
  [i \in 1..Len(s) |->
     IF LowerChar(s[i]) \in BranchCharset THEN LowerChar(s[i]) ELSE "-"]

\* the first three non-empty trimmed comma-separated pieces, each hyphenated
HyphenatedPieces(text) ==
  LET pieces == Split(text, ",")
      trimmed == [i \in 1..Len(pieces) |-> Strip(pieces[i])]
      kept == SelectSeq(trimmed, LAMBDA x : Len(x) >= 1)
      first == SubSeq(kept, 1, Min(3, Len(kept)))
  IN [i \in 1..Len(first) |-> Hyphenated(first[i])]

IsPrimaryLine(line) == StartsWith(Lower(line), PrimaryLabel)

IsAlternativesLine(line) == StartsWith(Lower(line), AlternativesLabel)

\* C7: for a reply with a line beginning "primary:" and a line beginning
\* "alternatives:", in any letter case, branch_name is the normalization of
\* only the text after the first colon (the label never appears in it), and
\* the alternatives are the normalizations of the first three non-empty
\* trimmed comma-separated pieces after the colon.
C7_LabelsMatchedInAnyCase ==
  (Done("branch") /\ Replied) =>
    LET lines == Split(Strip(ReplyText(1)), "\n")
    IN \A i, j \in 1..Len(lines) :
         (Len(lines) = 2 /\ IsPrimaryLine(lines[i])
            /\ IsAlternativesLine(lines[j])) =>
           /\ result.branch_name = Hyphenated(AfterFirstColon(lines[i]))
           /\ result.alternatives = HyphenatedPieces(AfterFirstColon(lines[j]))

InBranchCharset(s) == \A i \in 1..Len(s) : s[i] \in BranchCharset

\* C8: on every path of suggest_branch_name the branch_name and every
\* alternative consist only of characters in [a-z0-9/-], each is its parsed
\* value lowercased with each other character replaced by exactly one hyphen
\* ("Feature/New Auth!!" gives "feature/new-auth--"), and there are at most 3
\* alternatives.
C8_BranchNamesNormalized ==
  Done("branch") =>
    /\ InBranchCharset(result.branch_name)
    /\ \A k \in 1..Len(result.alternatives) :
         InBranchCharset(result.alternatives[k])
    /\ Len(result.alternatives) <= 3
    /\ Replied =>
         LET lines == Split(Strip(ReplyText(1)), "\n")
         IN /\ (Len(lines) = 1 /\ StartsWith(lines[1], PrimaryLabel)) =>
                 result.branch_name = Hyphenated(AfterFirstColon(lines[1]))
            /\ (Len(lines) = 1 /\ StartsWith(lines[1], AlternativesLabel)) =>
                 result.alternatives =
                   HyphenatedPieces(AfterFirstColon(lines[1]))

C8_Witness ==
  /\ Done("branch")
  /\ Replied
  /\ ReplyText(1) =
       PrimaryLabel \o <<" ", "F", "e", "a", "t", "u", "r", "e", "/", "N",
                         "e", "w", " ", "A", "u", "t", "h", "!", "!">>
  /\ result.branch_name =
       <<"f", "e", "a", "t", "u", "r", "e", "/", "n", "e", "w", "-",
         "a", "u", "t", "h", "-", "-">>

HasLine(lines, prefix) == \E i \in 1..Len(lines) : StartsWith(lines[i], prefix)

FirstLineWith(lines, prefix) ==
  lines[CHOOSE i \in 1..Len(lines) :
          /\ StartsWith(lines[i], prefix)
          /\ \A j \in 1..(i - 1) : ~StartsWith(lines[j], prefix)]

ValueAfter(line, prefix) == Strip(SubSeq(line, Len(prefix) + 1, Len(line)))

\* the values of all the lines beginning with the prefix
ValuesAfter(lines, prefix) ==
  {ValueAfter(lines[i], prefix) :
     i \in {k \in 1..Len(lines) : StartsWith(lines[k], prefix)}}

\* C9: when the reply holds several lines with the same prefix ("Summary:",
\* "Impact:" or "Testing:"), the field takes the value of the first such line
\* and later lines with that prefix are ignored.
C9_FirstPrefixedLineWins ==
  (Done("pr") /\ Replied) =>
    LET lines == Split(Strip(ReplyText(1)), "\n")
    IN /\ HasLine(lines, SummaryPrefix) =>
            result.summary =
              ValueAfter(FirstLineWith(lines, SummaryPrefix), SummaryPrefix)
       /\ HasLine(lines, ImpactPrefix) =>
            result.impact =
              ValueAfter(FirstLineWith(lines, ImpactPrefix), ImpactPrefix)
       /\ HasLine(lines, TestingPrefix) =>
            result.testing_notes =
              ValueAfter(FirstLineWith(lines, TestingPrefix), TestingPrefix)

C11_BlankReplySelectsFallback ==
  (pc = "done" /\ op \in {"branch", "pr"} /\ Replied /\ Blank(ReplyText(1)))
    => result = FallbackOf(op)

\* C12 as claimed: PR-summary parsing is idempotent. For every triple
\* (summary, impact, testing_notes) the parser of summarize_pull_request can
\* output, writing it in the canonical format and parsing it again yields the
\* same three fields, both for the reply format "Summary:/Impact:/Testing:"
\* and for the text the command-line tool emits,
\* "Summary:/Impact:/Testing Notes:".
C12_RenderedSummaryParsesBack ==
  pc = "reparsed" => reparsed.result = result

\* C12 as amended: a triple written in the reply format
\* "Summary:/Impact:/Testing:" parses back to the same three fields; written
\* as the command-line tool's text "Summary:/Impact:/Testing Notes:" it
\* parses back to the same summary and impact, and testing_notes is the parse
\* default "Standard testing procedures apply".
C12_ReplyFormatParsesBack ==
  pc = "reparsed" =>
    IF reparsed.format = "reply"
    THEN reparsed.result = result
    ELSE reparsed.result = [result EXCEPT !.testing_notes = PRDefaultTesting]

C12_Witness ==
  /\ pc = "reparsed"
  /\ reparsed.format = "summary_text"
  /\ Replied
  /\ result.summary = <<"A">>
  /\ result.testing_notes = <<"B">>
  /\ reparsed.result.summary = <<"A">>
  /\ reparsed.result.testing_notes = PRDefaultTesting

(***************************************************************************)
(* Properties of the command-line programs.                                *)
(***************************************************************************)
Occurrences(e) == Cardinality({i \in 1..Len(events) : events[i] = e})

Occurred(e) == \E i \in 1..Len(events) : events[i] = e

\* the run is over
RunEnded == pc = "end" /\ prog # "none"

\* the lines the command-line tool takes for yes
CliYes == {<<"y">>, <<"Y">>, <<"Y", " ">>, <<" ", "y">>}

\* the user typed a line at the prompt, one of the given lines
Typed(in, lines) == in.kind = "text" /\ in.text \in lines

\* C13: in the interactive commit flow, when there are no staged changes,
\* the working tree has changes, and the user accepts staging and then
\* accepts the generated message, exactly one stage command and exactly one
\* commit command are issued, and the message passed to the commit command
\* is character for character the generated message that was presented,
\* double quotes included.
C13_AcceptedMessageCommittedVerbatim ==
  (/\ RunEnded
   /\ prog = "interactive_commit_flow"
   /\ repo0.staged = <<>>
   /\ repo0.tree # <<>>
   /\ Typed(answers.stage, CliYes)
   /\ Typed(answers.choice, CliYes))
    => /\ Occurrences("stage_ok") + Occurrences("stage_fail") = 1
       /\ Len(commit_args) = 1
       /\ commit_args[1] = result.commit_message

\* C14: in every interactive commit flow (interactive_commit_flow of the
\* command-line tool and run_cli of the backend), when the user chooses edit
\* and gives an empty replacement message, the commit command is not
\* invoked, no commit is created, an error is reported, and the flow returns
\* to its caller without raising.
C14_EmptyEditNeverCommits ==
  (/\ RunEnded
   /\ prog \in CommitPrograms
   /\ Typed(answers.edit, {<<>>}))
    => /\ commit_args = <<>>
       /\ repo.commits = repo0.commits
       /\ Occurred("error_reported")
       /\ outcome \notin {"raised", "interrupt"}

\* the lines each program takes for accept or for edit at "Use this message?"
AcceptOrEditLines(p) ==
  IF p = "run_cli"
  THEN {<<"y">>, <<"Y">>, <<"e", "d", "i", "t">>}
  ELSE {<<"y">>, <<"Y">>, <<" ", "y">>, <<"e">>}

\* lines that are neither accept nor edit in either program
OtherLines == {<<"q">>, <<"n">>, <<>>, <<"x">>}

\* C15: a run issues the commit command only if the user's answer at the
\* decision prompt is accept or edit; for quit and every other answer ('n'
\* and the empty line included) the run ends without any commit command.
C15_CommitOnlyOnAcceptOrEdit ==
  prog \in CommitPrograms =>
    /\ commit_args # <<>> => Typed(answers.choice, AcceptOrEditLines(prog))
    /\ (RunEnded /\ Typed(answers.choice, OtherLines)) =>
         /\ commit_args = <<>>
         /\ ~Occurred("commit_ok")
         /\ ~Occurred("commit_fail")
         /\ repo.commits = repo0.commits

C15_Witness ==
  /\ RunEnded
  /\ prog = "interactive_commit_flow"
  /\ Typed(answers.choice, {<<>>})
  /\ outcome = "cancelled"
  /\ commit_args = <<>>

\* the run ended without creating a commit
Aborted ==
  /\ RunEnded
  /\ prog \in CommitPrograms
  /\ repo.commits = repo0.commits

\* the lines each program takes for yes at "stage all changes?"
StageYesLines(p) ==
  IF p = "run_cli" THEN {<<"y">>, <<"Y">>} ELSE CliYes

\* C16 as claimed: whenever the flow terminates in Abort (no commit
\* created) it has had no side effect on the repository: the staged set at
\* termination equals the staged set at start, for every sequence of user
\* answers, accepting "stage all" and later quitting or declining included.
C16_AbortLeavesIndexUntouched ==
  Aborted => repo.staged = repo0.staged

\* C16 as amended: a run that ends without creating a commit leaves the
\* staged set as it found it unless the user accepted "stage all" and the
\* stage command succeeded; then the changes of the working tree stay
\* staged, whatever the user answers afterwards.
C16_AbortKeepsIndexUnlessStaged ==
  Aborted =>
    IF Occurred("stage_ok")
    THEN /\ Typed(answers.stage, StageYesLines(prog))
         /\ repo.staged = repo0.staged \o repo0.tree
         /\ repo.tree = <<>>
    ELSE /\ repo.staged = repo0.staged
         /\ repo.tree = repo0.tree

C16_Witness ==
  /\ Aborted
  /\ prog = "interactive_commit_flow"
  /\ Typed(answers.stage, {<<"y">>})
  /\ Typed(answers.choice, {<<"q">>})
  /\ outcome = "quit"
  /\ repo0.staged = <<>>
  /\ repo.staged = <<"t">>

EmptyReads == {"diff_empty", "names_empty"}

StageCommands == {"stage_ok", "stage_fail"}

\* the staged diff read after a successful git add was still empty
StillEmptyAfterStaging ==
  \E i \in 1..(Len(events) - 1) :
    events[i] = "stage_ok" /\ events[i + 1] = "diff_empty"

\* C17: EnsureStaged. If the staged diff is empty the user is asked whether
\* to stage all changes; on any answer other than accept the flow aborts
\* without staging or generating; on accept the stage command runs once and
\* the staged diff is read again; if staging fails or the diff is still
\* empty, the flow aborts without generation or commit.
C17_EnsureStaged ==
  prog \in CommitPrograms =>
    /\ \A i \in 1..Len(events) :
         /\ events[i] = "ask_stage" => (i > 1 /\ events[i - 1] \in EmptyReads)
         /\ (events[i] \in EmptyReads /\ ~Occurred("stage_ok")
               /\ (i = 1 \/ events[i - 1] # "ask_stage")) =>
              (i < Len(events) /\ events[i + 1] = "ask_stage")
         /\ events[i] = "stage_ok" =>
              (i < Len(events)
                 /\ events[i + 1] \in {"diff_empty", "diff_nonempty"})
    /\ (answers.stage.kind # "none"
          /\ ~Typed(answers.stage, StageYesLines(prog))) =>
         /\ RunEnded
         /\ \A e \in StageCommands \cup {"generate", "present"} : ~Occurred(e)
         /\ commit_args = <<>>
         /\ repo = repo0
    /\ Typed(answers.stage, StageYesLines(prog)) =>
         Occurrences("stage_ok") + Occurrences("stage_fail") = 1
    /\ (Occurred("stage_fail") \/ StillEmptyAfterStaging) =>
         /\ RunEnded
         /\ ~Occurred("generate")
         /\ ~Occurred("present")
         /\ commit_args = <<>>

C17_Witness ==
  /\ RunEnded
  /\ prog = "run_cli"
  /\ Typed(answers.stage, {<<"n">>})
  /\ outcome = "nothing"
  /\ repo = repo0
  /\ repo0.tree # <<>>

CompleteResult ==
  /\ DOMAIN result = {"commit_message", "confidence", "suggestions"}
  /\ result.confidence \in {"0.9", "0.0"}
  /\ Len(result.suggestions) >= 1

VcsEvents ==
  {"check_ok", "check_fail", "names_empty", "names_nonempty", "diff_empty",
   "diff_nonempty", "diff_head_empty", "diff_head_nonempty",
   "diff_head_fail", "branch_read", "stage_ok", "stage_fail", "commit_ok",
   "commit_fail"}

\* main has returned
MainReturned == pc = "end" /\ prog \in CliPrograms

\* C19: main of the command-line tool. When the credential is absent (no
\* --api-key and no environment value) it returns non-zero and no
\* version-control command has been invoked; when the credential is present
\* it returns 0 whenever the chosen action completes or the user declines or
\* quits, and non-zero only when an exception escapes the action.
C19_ExitCodes ==
  /\ prog \in CliPrograms => (exit_code # NotExited <=> pc = "end")
  /\ MainReturned =>
       IF creds.arg = "" /\ creds.env = ""
       THEN /\ exit_code # <<0>>
            /\ \A i \in 1..Len(events) : events[i] \notin VcsEvents
            /\ commit_args = <<>>
            /\ calls = 0
            /\ repo = repo0
       ELSE /\ outcome \in {"not_repo", "declined", "stage_failed", "nothing",
                            "committed", "commit_failed", "empty_message",
                            "quit", "cancelled", "error", "interrupt",
                            "completed", "diff_error", "no_branch"} =>
                 exit_code = <<0>>
            /\ exit_code # <<0>> =>
                 /\ exit_code = <<1>>
                 /\ outcome = "raised"
                 /\ answers.stage.kind = "eof"

C19_Witness ==
  /\ MainReturned
  /\ creds = [arg |-> "k", env |-> ""]
  /\ prog = "interactive_commit_flow"
  /\ outcome = "raised"
  /\ exit_code = <<1>>

\* some event of the set occurred before position i
Earlier(i, S) == \E j \in 1..(i - 1) : events[j] \in S

\* C20: the pipeline order is strict. In every run, diff, stage and commit
\* commands are issued only after the repository check has succeeded in the
\* same run, and a failed check ends the run with no other version-control
\* command; the generation collaborator is invoked only after a non-empty
\* staged diff has been read; the commit command is issued only after a
\* generated result has been presented and the user's decision read.
C20_PipelineOrder ==
  /\ \A i \in 1..Len(events) :
       /\ events[i] \in VcsEvents \ {"check_ok", "check_fail"} =>
            Earlier(i, {"check_ok"})
       /\ events[i] \in VcsEvents \cup {"generate", "present"} =>
            ~Earlier(i, {"check_fail"})
       /\ (events[i] = "generate" /\ prog \in CommitPrograms) =>
            Earlier(i, {"diff_nonempty"})
       /\ events[i] = "generate" =>
            Earlier(i, {"diff_nonempty", "diff_head_nonempty"})
       /\ events[i] \in {"commit_ok", "commit_fail"} =>
            \E k \in 1..(i - 1) :
              /\ events[k] = "decide"
              /\ \E j \in 1..(k - 1) :
                   /\ events[j] = "present"
                   /\ Earlier(j, {"generate"})
  /\ calls > 0 => Occurred("generate")
  /\ Len(commit_args) = Occurrences("commit_ok") + Occurrences("commit_fail")
  /\ Occurred("check_fail") => (pc = "end" /\ repo = repo0 /\ calls = 0)

C20_Witness ==
  /\ RunEnded
  /\ prog = "run_cli"
  /\ events = <<"check_ok", "names_empty", "ask_stage", "stage_ok",
                "diff_nonempty", "generate", "present", "ask_choice",
                "decide", "commit_ok">>
  /\ Len(repo.commits) = 1

ClipboardPrograms == {"suggest_branch_names", "summarize_pr"}

\* C21: in the branch-suggestion and PR-summary flows an unavailable
\* clipboard (module not installed, or installed but the copy fails) is a
\* no-op: the flow still presents the full result and never reports an error
\* because of the clipboard; these flows never issue a stage or commit
\* command.
C21_ClipboardFailureIsNoOp ==
  prog \in ClipboardPrograms =>
    /\ \A e \in {"stage_ok", "stage_fail", "commit_ok", "commit_fail"} :
         ~Occurred(e)
    /\ commit_args = <<>>
    /\ repo = repo0
    /\ \A i \in 1..Len(events) :
         events[i] = "present" =>
           \A j \in (i + 1)..Len(events) : events[j] # "error_reported"
    /\ (RunEnded /\ Occurred("diff_head_nonempty")) =>
         /\ Occurred("present")
         /\ outcome = "completed"

\* C22: in the alternatives prompt built by generate_alternative_messages
\* the embedded diff is exactly the first min(len(diff), 1000) characters of
\* the diff: a diff longer than 1000 characters is cut at character 1000 and
\* followed by the truncation marker, and a diff of at most 1000 characters
\* is embedded whole and is not followed by a truncation marker.
C22_MarkerOnlyWhenCut ==
  Done("alternatives") =>
    LET n == Len(diff_text)
    IN /\ prompt.embedded = SubSeq(diff_text, 1, IF n < 1000 THEN n ELSE 1000)
       /\ n > 1000 => StartsWith(prompt.after, <<".", ".", ".">>)
       /\ n <= 1000 => prompt.after = <<>>

\* C23: in API-server mode, for any interleaving of concurrent requests to
\* /generate-commit, /suggest-branch and /summarize-pr, each request's
\* response is the one the same request would get when run alone with the
\* same collaborator replies: no request reads or writes state written by
\* another request.
C23_RequestsAreIndependent ==
  /\ client = [api_key |-> "k"]
  /\ \A r \in RequestIds :
       LET rq == requests[r]
       IN /\ rq.state = "running" => frames[r].replies = rq.sent
          /\ rq.state = "responded" =>
               rq.response =
                 Handled(rq.kind, rq.diff_text, rq.max_length, rq.sent).result

\* two requests of different kinds were in progress together, the branch
\* request got its reply while the commit request waited for its second one
C23_Witness ==
  /\ requests[1].state = "responded"
  /\ requests[1].kind = "commit"
  /\ Len(requests[1].sent) = 2
  /\ requests[2].state = "responded"
  /\ requests[2].kind = "branch"
  /\ requests[2].sent = <<Reply(PrimaryLabel \o <<" ", "a">>)>>
  /\ requests[2].response.branch_name # requests[1].response.commit_message

====
